---- MODULE Spec2Model ----
(***************************************************************************)
(* Model of the PRs card of github-readme-stats-action:                    *)
(*   - fetchUserPRs  : paginated GraphQL search, grouping by owner,        *)
(*                     main-repository selection, ranking                  *)
(*   - renderOrgCard : SVG card with embedded assets                       *)
(*   - the helpers   : shouldExcludeRepo, parseExcludeList, resolveColors, *)
(*                     escapeXml, injectProfileIcon                        *)
(*   - run()         : the flows of the entry point, card "prs" and the    *)
(*                     standard (stats) card                               *)
(* A JavaScript string is a sequence of one-character strings.  The value  *)
(* undefined/null of a string-typed field is the sequence Absent.          *)
(***************************************************************************)
EXTENDS Integers, Sequences, FiniteSets, TLC

\* ------------------------------------------------------------------ bounds
MaxPages == 2
MaxNodes == 2
MaxItems == 4

\* ------------------------------------------------------- string primitives
Absent == <<"<undefined>">>

Truthy(s) == s # Absent /\ s # <<>>

UpperChars == <<"A","B","C","D","E","F","G","H","I","J","K","L","M",
                "N","O","P","Q","R","S","T","U","V","W","X","Y","Z">>
LowerChars == <<"a","b","c","d","e","f","g","h","i","j","k","l","m",
                "n","o","p","q","r","s","t","u","v","w","x","y","z">>

LowerChar(c) ==
  IF \E i \in 1..26 : UpperChars[i] = c
  THEN LowerChars[CHOOSE i \in 1..26 : UpperChars[i] = c]
  ELSE c

toLowerCase(s) == [i \in 1..Len(s) |-> LowerChar(s[i])]

RECURSIVE TrimStart(_)
TrimStart(s) == IF s # <<>> /\ Head(s) = " " THEN TrimStart(Tail(s)) ELSE s

RECURSIVE TrimEnd(_)
TrimEnd(s) ==
  IF s # <<>> /\ s[Len(s)] = " " THEN TrimEnd(SubSeq(s, 1, Len(s) - 1)) ELSE s

trim(s) == TrimEnd(TrimStart(s))

\* String.prototype.includes
includes(haystack, needle) ==
  \E i \in 0..(Len(haystack) - Len(needle)) :
     SubSeq(haystack, i + 1, i + Len(needle)) = needle

\* the part of s after its last "/" (split("/") then the last element)
LastSegment(s) ==
  LET slashes == {i \in 1..Len(s) : s[i] = "/"}
      last    == IF slashes = {} THEN 0
                 ELSE CHOOSE i \in slashes : \A j \in slashes : j <= i
  IN SubSeq(s, last + 1, Len(s))

RECURSIVE Concat(_)
Concat(ss) == IF ss = <<>> THEN <<>> ELSE Head(ss) \o Concat(Tail(ss))

\* ------------------------------------------------------- exclusion filter
NormalizeEntries(list) ==
  SelectSeq([i \in 1..Len(list) |-> toLowerCase(trim(list[i]))],
            LAMBDA e : e # <<>>)

shouldExcludeRepo(repoName, excludeList) ==
  IF Len(excludeList) = 0 THEN FALSE
  ELSE LET haystack == toLowerCase(repoName)
       IN \E i \in 1..Len(excludeList) : includes(haystack, excludeList[i])

\* ----------------------------------------------------- display-name rules
getRepoShortName(repoName) ==
  IF ~Truthy(repoName) THEN <<>>
  ELSE IF LastSegment(repoName) # <<>> THEN LastSegment(repoName) ELSE repoName

\* a rule that names every owner after its main repository
resolveOrgDisplayNameByRepo(ownerType, orgDisplayName, repoName) ==
  IF getRepoShortName(repoName) # <<>> THEN getRepoShortName(repoName)
  ELSE orgDisplayName

resolveOrgDisplayName(ownerType, orgDisplayName, repoName) ==
  IF ownerType = "Organization" THEN orgDisplayName
  ELSE IF getRepoShortName(repoName) # <<>> THEN getRepoShortName(repoName)
       ELSE orgDisplayName

\* ------------------------------------------------ the GraphQL search API
S_octo   == <<"o","c","t","o">>
S_al     == <<"a","l">>
S_py     == <<"p","y">>
S_Python == <<"P","y","t","h","o","n">>
S_JavaScript == <<"J","S">>
S_TypeScript == <<"T","S">>

\* node.repository of a PR whose repository is not visible
NullRepository == [null |-> TRUE]

Repo(name, fork, typename, login, ownerName, stars, lang) ==
  [nameWithOwner |-> name, isFork |-> fork,
   owner |-> [typename |-> typename, login |-> login,
              avatarUrl |-> <<"h">> \o login, name |-> ownerName],
   stargazerCount |-> stars, primaryLanguage |-> lang]

\* the repositories the search may report
Repositories ==
  { Repo(<<"o","c","t","o","/","h","w">>, FALSE, "User", S_octo, Absent,
         80, S_JavaScript),
    Repo(<<"o","c","t","o","/","f","k">>, TRUE, "User", S_octo, Absent,
         120, S_TypeScript),
    Repo(<<"p","y","/","c","p">>, FALSE, "Organization", S_py, S_Python,
         65000, S_Python),
    Repo(<<"p","y","/","T","y">>, FALSE, "Organization", S_py, S_Python,
         65000, S_Python),
    Repo(<<"a","l","/","z","r">>, TRUE, "User", S_al, Absent,
         0, Absent) }

Nodes == {[repository |-> r] : r \in Repositories \cup {NullRepository}}

NodeLists == UNION {[1..n -> Nodes] : n \in 0..MaxNodes}

\* the (username, excludeList) arguments of the calls explored; the exclude
\* list is as the caller hands it over, not yet normalised
Arguments ==
  { <<S_octo, <<>> >>,
    <<S_al, <<>> >>,
    <<S_octo, << <<" ","T","y">>, <<" ">> >> >> }

NoResponse == [kind |-> "none"]

\* `after: null` of the first request
NullCursor == 0

\* the opaque endCursor of the n-th page
Cursor(n) == n

NoError == [kind |-> "none"]

\* ------------------------------------------------------------------ state
VARIABLES
  username,      \* fetchUserPRs argument
  excludeList,   \* fetchUserPRs argument
  pc,            \* "fetching" | "awaiting" | "done" | "failed"
  after,         \* cursor of the next request
  hasNextPage,   \* loop condition
  orgMap,        \* Map owner login -> accumulator, in insertion order
  result,        \* the returned list (meaningful when pc = "done")
  thrown,        \* the error fetchUserPRs rejected with
  requests,      \* cursors of the page requests issued so far
  response,      \* the last response received from the API
  consumed       \* nodes of all pages consumed so far, in order

aggVars == <<username, excludeList, pc, after, hasNextPage, orgMap, result,
             thrown, requests, response, consumed>>

\* renderOrgCard
VARIABLES
  data,             \* renderOrgCard argument
  options,          \* renderOrgCard argument
  languageColors,   \* renderOrgCard argument
  rpc,              \* "start" | "awaitAvatar" | "awaitLangIcon" |
                    \* "resolved" | "rejected"
  avatarFetch,      \* what the avatar request was answered with
  langFetch,        \* what the language-icon request was answered with
  avatarDataUri,
  langIconDataUri,
  svg               \* the returned document (meaningful when resolved)

renderVars == <<data, options, languageColors, rpc, avatarFetch, langFetch,
                avatarDataUri, langIconDataUri, svg>>

\* one call of an exported helper
VARIABLES
  fn,     \* the helper that is called
  args,   \* its arguments
  ret     \* Pending before the call, Returned(value) after it

callVars == <<fn, args, ret>>

\* run() of the entry point, card "prs"
VARIABLES
  runPc,       \* "awaitingPRs" (card "prs"); "start" | "awaitingMkdir" |
               \* "awaitingHandler" | "awaitingAvatar" | "awaitingWrite";
               \* "succeeded" | "failed"
  written,     \* paths given to writeFile, in order
  failure,     \* what run() rejected with (core.setFailed)
  pathOutput   \* core.setOutput("path", ...)

\* run() of the entry point, standard flow
VARIABLES
  card,            \* the `card` input
  optionsInput,    \* the options as given
  query,           \* the options as run() passes them on
  useProfileIcon,
  handlerOutcome,  \* how `await handler({ query }, res)` settled
  cardSvg,         \* the local `svg` of run()
  avatarResponse   \* how fetchAvatarDataUri settled

statsVars == <<card, optionsInput, query, useProfileIcon, handlerOutcome,
               cardSvg, avatarResponse>>

runVars == <<runPc, written, failure, pathOutput, statsVars>>

\* ------------------------------------------------------ accumulation pass
\* a lookup that takes the first accumulator for every owner
IndexOfOrgFirst(map, login) == IF map = <<>> THEN 0 ELSE 1

\* orgMap.has(ownerLogin) / orgMap.get(ownerLogin): position of the key, or 0
IndexOfOrg(map, login) ==
  IF \E i \in 1..Len(map) : map[i].org = login
  THEN CHOOSE i \in 1..Len(map) : map[i].org = login
  ELSE 0

\* orgEntry.repos.has(repoName) / .get(repoName): position of the key, or 0
IndexOfRepo(repos, name) ==
  IF \E i \in 1..Len(repos) : repos[i].name = name
  THEN CHOOSE i \in 1..Len(repos) : repos[i].name = name
  ELSE 0

\* a fork rule that forgets the owner test
IsSelfForkAnyOwner(repo, user) == repo.isFork

\* `ownerLogin === username && isFork`
IsSelfFork(repo, user) == repo.owner.login = user /\ repo.isFork

\* a loop body that counts a repository once, however often it is seen
ProcessNodeCountsOnce(map, node, user, normalizedExclude) ==
  IF node.repository = NullRepository THEN map
  ELSE
    LET repo       == node.repository
        ownerLogin == repo.owner.login
        repoName   == repo.nameWithOwner
        ownerType  == IF repo.owner.typename = "" THEN "User"
                      ELSE repo.owner.typename
    IN
    IF IsSelfFork(repo, user) THEN map
    ELSE IF shouldExcludeRepo(repoName, normalizedExclude) THEN map
    ELSE
      LET map1 ==
            IF IndexOfOrg(map, ownerLogin) = 0
            THEN Append(map,
                   [org |-> ownerLogin,
                    orgDisplayName |-> IF Truthy(repo.owner.name)
                                       THEN repo.owner.name ELSE ownerLogin,
                    avatarUrl |-> repo.owner.avatarUrl,
                    ownerType |-> ownerType,
                    repos |-> <<>>])
            ELSE map
          oi == IndexOfOrg(map1, ownerLogin)
          repos1 ==
            IF IndexOfRepo(map1[oi].repos, repoName) = 0
            THEN Append(map1[oi].repos,
                   [name |-> repoName,
                    stars |-> repo.stargazerCount,
                    prs |-> 0,
                    language |-> IF Truthy(repo.primaryLanguage)
                                 THEN repo.primaryLanguage ELSE <<>>])
            ELSE map1[oi].repos
          ri == IndexOfRepo(repos1, repoName)
          repos2 == [repos1 EXCEPT ![ri].prs = 1]
      IN [map1 EXCEPT ![oi].repos = repos2]

\* the body of `for (const node of search.nodes)`
ProcessNode(map, node, user, normalizedExclude) ==
  IF node.repository = NullRepository THEN map
  ELSE
    LET repo       == node.repository
        ownerLogin == repo.owner.login
        repoName   == repo.nameWithOwner
        ownerType  == IF repo.owner.typename = "" THEN "User"
                      ELSE repo.owner.typename
    IN
    IF IsSelfFork(repo, user) THEN map
    ELSE IF shouldExcludeRepo(repoName, normalizedExclude) THEN map
    ELSE
      LET map1 ==
            IF IndexOfOrg(map, ownerLogin) = 0
            THEN Append(map,
                   [org |-> ownerLogin,
                    orgDisplayName |-> IF Truthy(repo.owner.name)
                                       THEN repo.owner.name ELSE ownerLogin,
                    avatarUrl |-> repo.owner.avatarUrl,
                    ownerType |-> ownerType,
                    repos |-> <<>>])
            ELSE map
          oi == IndexOfOrg(map1, ownerLogin)
          repos1 ==
            IF IndexOfRepo(map1[oi].repos, repoName) = 0
            THEN Append(map1[oi].repos,
                   [name |-> repoName,
                    stars |-> repo.stargazerCount,
                    prs |-> 0,
                    language |-> IF Truthy(repo.primaryLanguage)
                                 THEN repo.primaryLanguage ELSE <<>>])
            ELSE map1[oi].repos
          ri == IndexOfRepo(repos1, repoName)
          repos2 == [repos1 EXCEPT ![ri].prs = @ + 1]
      IN [map1 EXCEPT ![oi].repos = repos2]

RECURSIVE ProcessNodes(_, _, _, _)
ProcessNodes(map, nodes, user, normalizedExclude) ==
  IF nodes = <<>> THEN map
  ELSE ProcessNodes(ProcessNode(map, Head(nodes), user, normalizedExclude),
                    Tail(nodes), user, normalizedExclude)

\* ------------------------------------------------------------ finalisation
\* the inner `for (const [name, info] of entry.repos)` loop, main repository
RECURSIVE MainRepo(_, _)
MainRepo(repos, mainRepo) ==
  IF repos = <<>> THEN mainRepo
  ELSE LET info == Head(repos)
       IN MainRepo(Tail(repos),
                   IF info.stars > mainRepo.stars
                   THEN [name |-> info.name, stars |-> info.stars,
                         language |-> info.language]
                   ELSE mainRepo)

\* `totalPRs = info.prs` in place of `+=`
TotalPRsLastOnly(repos) ==
  IF repos = <<>> THEN 0 ELSE repos[Len(repos)].prs

\* the same loop, totalPRs
RECURSIVE TotalPRs(_)
TotalPRs(repos) ==
  IF repos = <<>> THEN 0 ELSE Head(repos).prs + TotalPRs(Tail(repos))

OrgPRData(entry) ==
  LET mainRepo == MainRepo(entry.repos,
                           [name |-> <<>>, stars |-> 0, language |-> <<>>])
  IN [org |-> entry.org,
      orgDisplayName |-> resolveOrgDisplayName(entry.ownerType,
                                               entry.orgDisplayName,
                                               mainRepo.name),
      avatarUrl |-> entry.avatarUrl,
      repo |-> mainRepo.name,
      stars |-> mainRepo.stars,
      mergedPRs |-> TotalPRs(entry.repos),
      language |-> mainRepo.language]

\* an insertion that puts an element before its equals
InsertSortedUnstable(sorted, e) ==
  LET before == {i \in 0..Len(sorted) :
                   \A j \in 1..i : sorted[j].mergedPRs > e.mergedPRs}
      k == CHOOSE i \in before : \A j \in before : j <= i
  IN SubSeq(sorted, 1, k) \o <<e>> \o SubSeq(sorted, k + 1, Len(sorted))

\* result.sort((a, b) => b.mergedPRs - a.mergedPRs): Array.prototype.sort is
\* stable, so an element goes after every element that compares <= 0 to it
InsertSorted(sorted, e) ==
  LET before == {i \in 0..Len(sorted) :
                   \A j \in 1..i : sorted[j].mergedPRs >= e.mergedPRs}
      k == CHOOSE i \in before : \A j \in before : j <= i
  IN SubSeq(sorted, 1, k) \o <<e>> \o SubSeq(sorted, k + 1, Len(sorted))

RECURSIVE SortByMergedPRs(_)
SortByMergedPRs(list) ==
  IF list = <<>> THEN <<>>
  ELSE InsertSorted(SortByMergedPRs(SubSeq(list, 1, Len(list) - 1)),
                    list[Len(list)])

Finalize(map) == SortByMergedPRs([i \in 1..Len(map) |-> OrgPRData(map[i])])

\* ----------------------------------------------------------------- actions
AggInit ==
  /\ \E a \in Arguments : username = a[1] /\ excludeList = a[2]
  /\ response = NoResponse
  /\ pc = "fetching"
  /\ after = NullCursor
  /\ hasNextPage = TRUE
  /\ orgMap = <<>>
  /\ result = <<>>
  /\ thrown = NoError
  /\ requests = <<>>
  /\ consumed = <<>>

\* a loop that requests the next page while the last one is still awaited
IssueRequestEager ==
  /\ pc \in {"fetching", "awaiting"}
  /\ hasNextPage
  /\ Len(requests) < MaxPages
  /\ requests' = Append(requests, after)
  /\ pc' = "awaiting"
  /\ UNCHANGED <<username, excludeList, after, hasNextPage, orgMap, result,
                 thrown, response, consumed>>
  /\ UNCHANGED <<renderVars, callVars, runVars>>

\* `await fetch("https://api.github.com/graphql", ...)` is issued
IssueRequest ==
  /\ pc = "fetching"
  /\ hasNextPage
  /\ Len(requests) < MaxPages
  /\ requests' = Append(requests, after)
  /\ pc' = "awaiting"
  /\ UNCHANGED <<username, excludeList, after, hasNextPage, orgMap, result,
                 thrown, response, consumed>>
  /\ UNCHANGED <<renderVars, callVars, runVars>>

\* a loop that never reads hasNextPage from the page
ReceivePageKeepsLooping ==
  /\ pc = "awaiting"
  /\ \E nodes \in NodeLists, next \in BOOLEAN :
       /\ Len(consumed) + Len(nodes) <= MaxItems
       /\ next => Len(requests) < MaxPages
       /\ response' = [kind |-> "ok", hasNextPage |-> next,
                       endCursor |-> IF next THEN Cursor(Len(requests))
                                     ELSE NullCursor]
       /\ orgMap' = ProcessNodes(orgMap, nodes, username,
                                 NormalizeEntries(excludeList))
       /\ consumed' = consumed \o nodes
       /\ after' = IF next THEN Cursor(Len(requests)) ELSE NullCursor
  /\ pc' = "fetching"
  /\ UNCHANGED <<username, excludeList, hasNextPage, result, thrown, requests>>
  /\ UNCHANGED <<renderVars, callVars, runVars>>

\* the response is ok and carries data: the page is accumulated; after the
\* last page the list is built, sorted and returned
ReceivePage ==
  /\ pc = "awaiting"
  /\ \E nodes \in NodeLists, next \in BOOLEAN :
       /\ Len(consumed) + Len(nodes) <= MaxItems
       /\ next => Len(requests) < MaxPages
       /\ LET map == ProcessNodes(orgMap, nodes, username,
                                  NormalizeEntries(excludeList))
              endCursor == IF next THEN Cursor(Len(requests)) ELSE NullCursor
          IN /\ response' = [kind |-> "ok", hasNextPage |-> next,
                              endCursor |-> endCursor]
             /\ orgMap' = map
             /\ consumed' = consumed \o nodes
             /\ hasNextPage' = next
             /\ after' = endCursor
             /\ IF next
                THEN /\ pc' = "fetching"
                     /\ result' = result
                ELSE /\ pc' = "done"
                     /\ result' = Finalize(map)
  /\ UNCHANGED <<username, excludeList, thrown, requests>>
  /\ UNCHANGED <<renderVars, callVars, runVars>>

\* a failed page that ends the loop and returns what was accumulated
ReceiveHttpErrorPartial ==
  /\ pc = "awaiting"
  /\ \E status \in {502} :
       response' = [kind |-> "http", status |-> status]
  /\ pc' = "done"
  /\ result' = Finalize(orgMap)
  /\ UNCHANGED <<username, excludeList, after, hasNextPage, orgMap, thrown,
                 requests, consumed>>
  /\ UNCHANGED <<renderVars, callVars, runVars>>

\* `if (!res.ok) throw new Error(...)`
ReceiveHttpError ==
  /\ pc = "awaiting"
  /\ \E status \in {502} :
       /\ response' = [kind |-> "http", status |-> status]
       /\ thrown' = [kind |-> "http", status |-> status]
  /\ pc' = "failed"
  /\ UNCHANGED <<username, excludeList, after, hasNextPage, orgMap, result,
                 requests, consumed>>
  /\ UNCHANGED <<renderVars, callVars, runVars>>

\* `if (json.errors) throw new Error(...)`
ReceiveGraphQLErrors ==
  /\ pc = "awaiting"
  /\ response' = [kind |-> "graphql", errors |-> "RATE_LIMITED"]
  /\ thrown' = [kind |-> "graphql", errors |-> "RATE_LIMITED"]
  /\ pc' = "failed"
  /\ UNCHANGED <<username, excludeList, after, hasNextPage, orgMap, result,
                 requests, consumed>>
  /\ UNCHANGED <<renderVars, callVars, runVars>>

AggNext ==
  \/ IssueRequest
  \/ ReceivePage
  \/ ReceiveHttpError
  \/ ReceiveGraphQLErrors

\* ------------------------------------------------------------- escapeXml
\* String.prototype.replace with a global one-character pattern
ReplaceAll(s, c, replacement) ==
  Concat([i \in 1..Len(s) |-> IF s[i] = c THEN replacement ELSE <<s[i]>>])

\* an escape that handles the ampersand last
escapeXmlAmpersandLast(s) ==
  ReplaceAll(
    ReplaceAll(
      ReplaceAll(
        ReplaceAll(
          ReplaceAll(s, "<", <<"&","l","t",";">>),
          ">", <<"&","g","t",";">>),
        "\"", <<"&","q","u","o","t",";">>),
      "'", <<"&","#","3","9",";">>),
    "&", <<"&","a","m","p",";">>)

escapeXml(s) ==
  ReplaceAll(
    ReplaceAll(
      ReplaceAll(
        ReplaceAll(
          ReplaceAll(s, "&", <<"&","a","m","p",";">>),
          "<", <<"&","l","t",";">>),
        ">", <<"&","g","t",";">>),
      "\"", <<"&","q","u","o","t",";">>),
    "'", <<"&","#","3","9",";">>)

\* ----------------------------------------------------------- resolveColors
S_default == <<"d","e","f","a","u","l","t">>
S_dark    == <<"d","a","r","k">>

ThemeNames == {S_default, S_dark}

\* the `default` and `dark` entries of the upstream theme table
themes(name) ==
  CASE name = S_default ->
         [title_color  |-> <<"2","f","8","0","e","d">>,
          icon_color   |-> <<"4","c","7","1","f","2">>,
          text_color   |-> <<"4","3","4","d","5","8">>,
          bg_color     |-> <<"f","f","f","e","f","e">>,
          border_color |-> <<"e","4","e","2","e","2">>]
    [] name = S_dark ->
         [title_color  |-> <<"f","f","f">>,
          icon_color   |-> <<"7","9","f","f","9","7">>,
          text_color   |-> <<"9","f","9","f","9","f">>,
          bg_color     |-> <<"1","5","1","5","1","5">>,
          border_color |-> Absent]

HexDigits == {"0","1","2","3","4","5","6","7","8","9",
              "a","b","c","d","e","f","A","B","C","D","E","F"}

\* a test that accepts every text
IsHexColorAnyText(v) == TRUE

\* /^([A-Fa-f0-9]{3,8})$/.test(v)
IsHexColor(v) ==
  /\ Len(v) >= 3
  /\ Len(v) <= 8
  /\ \A i \in 1..Len(v) : v[i] \in HexDigits

\* a `hex` that never applies the override
hexKeepsTheme(v, fb) == fb

\* the local `hex` of resolveColors
hex(v, fb) == IF Truthy(v) /\ IsHexColor(v) THEN <<"#">> \o v ELSE fb

resolveColors(opts) ==
  LET themeName == IF Truthy(opts.theme) THEN opts.theme ELSE S_default
      base      == IF themeName \in ThemeNames THEN themes(themeName)
                   ELSE themes(S_default)
      fallback  == themes(S_default)
      pick(b, f) == <<"#">> \o (IF Truthy(b) THEN b ELSE f)
  IN [titleColor  |-> hex(opts.title_color,
                          pick(base.title_color, fallback.title_color)),
      textColor   |-> hex(opts.text_color,
                          pick(base.text_color, fallback.text_color)),
      iconColor   |-> hex(opts.icon_color,
                          pick(base.icon_color, fallback.icon_color)),
      bgColor     |-> hex(opts.bg_color,
                          pick(base.bg_color, fallback.bg_color)),
      borderColor |-> hex(opts.border_color,
                          pick(base.border_color, fallback.border_color))]

\* --------------------------------------------------- language icon lookup
S_Cpp == <<"C","+","+">>
S_Zig == <<"Z","i","g">>

\* entries of LANG_ICON_SLUGS (the languages the model renders)
LANG_ICON_SLUGS(language) ==
  CASE language = S_Python -> <<"python/python-original">>
    [] language = S_Cpp    -> <<"cplusplus/cplusplus-original">>
    [] language = <<"C">>  -> <<"c/c-original">>
    [] OTHER               -> Absent

languageIconUrl(language) ==
  LET slug == LANG_ICON_SLUGS(language)
  IN IF ~Truthy(slug) THEN Absent
     ELSE <<"https://cdn.jsdelivr.net/gh/devicons/devicon@latest/icons/">>
          \o slug \o <<".svg">>

S_gray == <<"#","5","8","6","0","6","9">>

\* a colour table is a set of [lang, color] entries
ColorOf(colorMap, language) ==
  IF \E e \in colorMap : e.lang = language
  THEN (CHOOSE e \in colorMap : e.lang = language).color
  ELSE Absent

\* a lookup that ignores the table
languageColorNoTable(language, colorMap) == S_gray

\* colorMap[language] || "#586069"
languageColor(language, colorMap) ==
  IF Truthy(ColorOf(colorMap, language)) THEN ColorOf(colorMap, language)
  ELSE S_gray

\* ------------------------------------------------------------ formatCount
\* number-typed field holding undefined
UndefinedNumber == -1

S_undefined == <<"u","n","d","e","f","i","n","e","d">>

Digit(d) == <<"0","1","2","3","4","5","6","7","8","9">>[d + 1]

RECURSIVE DecimalString(_)
DecimalString(n) ==
  IF n < 10 THEN <<Digit(n)>>
  ELSE DecimalString(n \div 10) \o <<Digit(n % 10)>>

\* String(n), and `${n}` in a template literal
NumberToString(n) ==
  IF n = UndefinedNumber THEN S_undefined ELSE DecimalString(n)

\* (n / 1000).toFixed(1): the nearest tenth of n / 1000; the stars of the
\* model are never half way between two tenths
ThousandsToFixed1(n) ==
  LET tenths == (n + 50) \div 100
  IN DecimalString(tenths \div 10) \o <<".", Digit(tenths % 10)>>

\* a formatter that abbreviates only above 1000
formatCountAbove1000(n) ==
  IF n # UndefinedNumber /\ n > 1000 THEN ThousandsToFixed1(n) \o <<"k">>
  ELSE NumberToString(n)

formatCount(n) ==
  IF n # UndefinedNumber /\ n >= 1000 THEN ThousandsToFixed1(n) \o <<"k">>
  ELSE NumberToString(n)

\* ------------------------------------------------------ fetchImageDataUri
\* what the image endpoint can answer
FetchOutcomes ==
  { [kind |-> "ok", contentType |-> <<"image/svg+xml">>],
    [kind |-> "ok", contentType |-> Absent],
    [kind |-> "http_error", status |-> 404],
    [kind |-> "transport_error"] }

NotFetched == [kind |-> "none"]

\* result of `await fetchImageDataUri(url)`: a value or a thrown error
fetchImageDataUri(outcome) ==
  IF outcome.kind = "ok"
  THEN [threw |-> FALSE,
        value |-> <<"data:">>
                  \o (IF Truthy(outcome.contentType) THEN outcome.contentType
                      ELSE <<"image/png">>)
                  \o <<";base64,", "AAAA">>]
  ELSE [threw |-> TRUE, value |-> Absent]

\* ----------------------------------------------------------- the document
\* The SVG is the sequence of the pieces of the template literal: fixed
\* markup (Lit) and interpolated values (Val), each tagged with the element
\* of the card it belongs to.
Lit(part, markup) ==
  [part |-> part, kind |-> "lit", name |-> "", text |-> <<markup>>]
Val(part, name, text) ==
  [part |-> part, kind |-> "val", name |-> name, text |-> text]

width      == 450
height     == 100
avatarSize == 60

\* an avatar element that shows a placeholder when nothing was fetched
avatarImageWithPlaceholder(avatarUri, org) ==
  << Lit("avatar", "<rect x=\"20\" y=\"20\" rx=\"8\" fill=\"#ddd\"/>") >>

\* `const avatarImage = avatarDataUri ? ... : ""`
avatarImage(avatarUri, org) ==
  IF Truthy(avatarUri)
  THEN << Lit("avatar", "<defs><clipPath id=\""),
          Val("avatar", "clipId", <<"avatar-clip-">> \o org),
          Lit("avatar", "\"><rect x=\"20\" y=\"20\" width=\""),
          Val("avatar", "avatarSize", DecimalString(avatarSize)),
          Lit("avatar", "\" rx=\"8\"/></clipPath></defs><rect fill=\"#fff\"/><image href=\""),
          Val("avatar", "avatarHref", avatarUri),
          Lit("avatar", "\" clip-path=\"url(#"),
          Val("avatar", "clipId", <<"avatar-clip-">> \o org),
          Lit("avatar", ")\"/>") >>
  ELSE <<>>

\* `const langIconSvg = langIconDataUri && data.language ? ... : ...`
langIconSvg(langIconUri, language, langColor) ==
  IF Truthy(langIconUri) /\ Truthy(language)
  THEN << Lit("lang", "<image x=\"345\" y=\"23\" width=\"16\" height=\"16\" href=\""),
          Val("lang", "langIconHref", langIconUri),
          Lit("lang", "\"/><text x=\"365\" y=\"36\" class=\"lang\">"),
          Val("lang", "langLabel", escapeXml(language)),
          Lit("lang", "</text>") >>
  ELSE IF Truthy(language)
  THEN << Lit("lang", "<circle cx=\"350\" cy=\"32\" r=\"6\" fill=\""),
          Val("lang", "langDotFill", langColor),
          Lit("lang", "\"/><text x=\"362\" y=\"36\" class=\"lang\">"),
          Val("lang", "langLabel", escapeXml(language)),
          Lit("lang", "</text>") >>
  ELSE <<>>

\* a flag that is set by every non-empty option value
hideBorderTruthy(opts) == Truthy(opts.hide_border)

\* options.hide_border === "true"
hideBorder(opts) == opts.hide_border = <<"t","r","u","e">>

\* the template literal of renderOrgCard
SvgDocument(d, opts, colorMap, avatarUri, langIconUri) ==
  LET colors       == resolveColors(opts)
      borderRadius == IF Truthy(opts.border_radius) THEN opts.border_radius
                      ELSE <<"4",".","5">>
      langColor    == languageColor(d.language, colorMap)
  IN << Lit("frame", "<svg width=\"450\" height=\"100\" role=\"img\" aria-labelledby=\"title-"),
        Val("frame", "org", d.org),
        Lit("frame", "\">"),
        Lit("title", "<title id=\"title-"),
        Val("title", "org", d.org),
        Lit("title", "\">"),
        Val("title", "titleText", escapeXml(d.orgDisplayName)),
        Lit("title", " PR Card</title>"),
        Lit("style", "<style>.org-name{fill:"),
        Val("style", "titleColor", colors.titleColor),
        Lit("style", "}.stat{fill:"),
        Val("style", "textColor", colors.textColor),
        Lit("style", "}.lang{fill:"),
        Val("style", "textColor", colors.textColor),
        Lit("style", "}</style>"),
        Lit("border", "<rect x=\"0.5\" y=\"0.5\" rx=\""),
        Val("border", "borderRadius", borderRadius),
        Lit("border", "\" width=\"449\" height=\"99\" fill=\""),
        Val("border", "bgColor", colors.bgColor),
        Lit("border", "\" stroke=\""),
        Val("border", "borderColor", colors.borderColor),
        Lit("border", "\" stroke-opacity=\""),
        Val("border", "strokeOpacity", IF hideBorder(opts) THEN <<"0">> ELSE <<"1">>),
        Lit("border", "\"/>") >>
     \o avatarImage(avatarUri, d.org)
     \o << Lit("name", "<text x=\"95\" y=\"42\" class=\"org-name\">"),
           Val("name", "nameText", escapeXml(d.orgDisplayName)),
           Lit("name", "</text>") >>
     \o langIconSvg(langIconUri, d.language, langColor)
     \o << Lit("stats", "<g transform=\"translate(95, 58)\"><g>[star]<text x=\"20\" y=\"13\" class=\"stat\">"),
           Val("stats", "stars", formatCount(d.stars)),
           Lit("stats", "</text></g><g transform=\"translate(80, 0)\">[merge]<text x=\"20\" y=\"13\" class=\"stat\">"),
           Val("stats", "mergedPRs", NumberToString(d.mergedPRs)),
           Lit("stats", " merged</text></g></g>"),
           Lit("frame", "</svg>") >>

\* ------------------------------------------------ renderOrgCard: the calls
RenderData ==
  { [org |-> org, orgDisplayName |-> name,
     avatarUrl |-> <<"h">> \o org,
     repo |-> org \o <<"/","r">>,
     stars |-> stars, mergedPRs |-> 12, language |-> language] :
    org \in {S_py, <<"a","\"","b">>},
    name \in {S_Python, <<"a","&","<",">","\"","'">>},
    stars \in {UndefinedNumber, 0, 999, 1000, 1960, 65000},
    language \in {Absent, <<>>, S_Python, S_Cpp, S_Zig, <<"<","L",">">>} }

RenderOptions ==
  { [theme |-> theme, title_color |-> Absent, text_color |-> Absent,
     icon_color |-> Absent, bg_color |-> Absent, border_color |-> Absent,
     border_radius |-> radius, hide_border |-> hide] :
    theme \in {Absent, S_dark, <<"n","o","n","e">>},
    radius \in {Absent, <<"1","0">>, <<"\"",">","<","x">>},
    hide \in {Absent, <<"t","r","u","e">>, <<"f","a","l","s","e">>} }

ColorTables ==
  { {}, {[lang |-> S_Python, color |-> <<"#","3","5","7","2","A","5">>]} }

RenderInit ==
  /\ data \in RenderData
  /\ options \in RenderOptions
  /\ languageColors \in ColorTables
  /\ rpc = "start"
  /\ avatarFetch = NotFetched
  /\ langFetch = NotFetched
  /\ avatarDataUri = Absent
  /\ langIconDataUri = <<>>
  /\ svg = <<>>

\* resolveColors, then the avatar request is issued
StartRender ==
  /\ rpc = "start"
  /\ rpc' = "awaitAvatar"
  /\ UNCHANGED <<data, options, languageColors, avatarFetch, langFetch,
                 avatarDataUri, langIconDataUri, svg>>
  /\ UNCHANGED <<aggVars, callVars, runVars>>

\* an avatar request without the try/catch around it
AvatarSettledNoCatch ==
  /\ rpc = "awaitAvatar"
  /\ \E outcome \in FetchOutcomes :
       LET r == fetchImageDataUri(outcome)
       IN /\ avatarFetch' = outcome
          /\ IF r.threw
             THEN /\ rpc' = "rejected"
                  /\ UNCHANGED <<avatarDataUri, svg>>
             ELSE /\ avatarDataUri' = r.value
                  /\ IF languageIconUrl(data.language) # Absent
                     THEN /\ rpc' = "awaitLangIcon"
                          /\ svg' = svg
                     ELSE /\ rpc' = "resolved"
                          /\ svg' = SvgDocument(data, options, languageColors,
                                                r.value, langIconDataUri)
  /\ UNCHANGED <<data, options, languageColors, langFetch, langIconDataUri>>
  /\ UNCHANGED <<aggVars, callVars, runVars>>

\* the avatar request settles (try/catch: a failure leaves ""); without an
\* icon URL the card is composed and returned
AvatarSettled ==
  /\ rpc = "awaitAvatar"
  /\ \E outcome \in FetchOutcomes :
       LET r   == fetchImageDataUri(outcome)
           uri == IF r.threw THEN <<>> ELSE r.value
       IN /\ avatarFetch' = outcome
          /\ avatarDataUri' = uri
          /\ IF languageIconUrl(data.language) # Absent
             THEN /\ rpc' = "awaitLangIcon"
                  /\ svg' = svg
             ELSE /\ rpc' = "resolved"
                  /\ svg' = SvgDocument(data, options, languageColors,
                                        uri, langIconDataUri)
  /\ UNCHANGED <<data, options, languageColors, langFetch, langIconDataUri>>
  /\ UNCHANGED <<aggVars, callVars, runVars>>

\* the icon request settles (try/catch: a failure leaves ""); the card is
\* composed and returned
LangIconSettled ==
  /\ rpc = "awaitLangIcon"
  /\ \E outcome \in FetchOutcomes :
       LET r   == fetchImageDataUri(outcome)
           uri == IF r.threw THEN langIconDataUri ELSE r.value
       IN /\ langFetch' = outcome
          /\ langIconDataUri' = uri
          /\ svg' = SvgDocument(data, options, languageColors,
                                avatarDataUri, uri)
  /\ rpc' = "resolved"
  /\ UNCHANGED <<data, options, languageColors, avatarFetch, avatarDataUri>>
  /\ UNCHANGED <<aggVars, callVars, runVars>>

RenderNext ==
  \/ StartRender
  \/ AvatarSettled
  \/ LangIconSettled

\* ------------------------------------------------------- parseExcludeList
\* String.prototype.split with a one-character separator
RECURSIVE Split(_, _)
Split(s, sep) ==
  LET hits == {i \in 1..Len(s) : s[i] = sep}
  IN IF hits = {} THEN <<s>>
     ELSE LET first == CHOOSE i \in hits : \A j \in hits : i <= j
          IN <<SubSeq(s, 1, first - 1)>>
             \o Split(SubSeq(s, first + 1, Len(s)), sep)

\* a parser that keeps the blank entries
parseExcludeListKeepBlank(value) ==
  IF ~Truthy(value) THEN <<>>
  ELSE LET parts == Split(value, ",")
       IN [i \in 1..Len(parts) |-> toLowerCase(trim(parts[i]))]

parseExcludeList(value) ==
  IF ~Truthy(value) THEN <<>>
  ELSE LET parts == Split(value, ",")
       IN SelectSeq([i \in 1..Len(parts) |-> toLowerCase(trim(parts[i]))],
                    LAMBDA e : e # <<>>)

\* ------------------------------------------------------ injectProfileIcon
\* An SVG text is a sequence of tags; the tags that matter to the pattern of
\* injectProfileIcon are the opening tag of an svg element with and without
\* data-testid="github-rank-icon" and the closing tag of an svg element.
\* The data URI and the user name hold no "$", so String.prototype.replace
\* inserts the replacement text as it is.
OpenSvg  == "<svg x=\"0\">"
OpenIcon == "<svg x=\"-38\" data-testid=\"github-rank-icon\">"
CloseSvg == "</svg>"
PathTag  == "<path d=\"M0 0\"/>"

SvgTags == {OpenSvg, OpenIcon, CloseSvg, PathTag}

profileRankIcon(dataUri, user) ==
  << "<svg x=\"-38\" y=\"-30\" width=\"66\" height=\"66\" data-testid=\"profile-rank-icon\">",
     "<defs><clipPath id=\"profile-clip-" >>
  \o user
  \o << "\"><circle cx=\"33\" cy=\"33\" r=\"33\"/></clipPath></defs>",
        "<image width=\"66\" height=\"66\" href=\"" >>
  \o dataUri
  \o << "\" clip-path=\"url(#profile-clip-" >>
  \o user
  \o << ")\"/>", CloseSvg >>

\* [\s\S]*?<\/svg> tried from position q on: the end of the shortest
\* continuation, 0 when there is none
RECURSIVE LazyUntilClose(_, _)
LazyUntilClose(text, q) ==
  IF q > Len(text) THEN 0
  ELSE IF text[q] = CloseSvg THEN q
  ELSE LazyUntilClose(text, q + 1)

\* [\s\S]*<\/svg> tried from position q on: the end of the longest
\* continuation, 0 when there is none
GreedyUntilClose(text, q) ==
  LET closes == {j \in q..Len(text) : text[j] = CloseSvg}
  IN IF closes = {} THEN 0 ELSE CHOOSE j \in closes : \A k \in closes : k <= j

\* the pattern tried at the start positions p, p + 1, ...: the first match
\* as <<start, end>>, <<0, 0>> when the pattern matches nowhere
RECURSIVE FirstMatch(_, _)
FirstMatch(text, p) ==
  IF p > Len(text) THEN <<0, 0>>
  ELSE IF text[p] = OpenIcon /\ LazyUntilClose(text, p + 1) # 0
       THEN <<p, LazyUntilClose(text, p + 1)>>
       ELSE FirstMatch(text, p + 1)

\* a replacement whose pattern takes the longest continuation
injectProfileIconGreedy(text, dataUri, user) ==
  LET starts == {p \in 1..Len(text) :
                   text[p] = OpenIcon /\ GreedyUntilClose(text, p + 1) # 0}
  IN IF starts = {} THEN text
     ELSE LET p == CHOOSE q \in starts : \A r \in starts : q <= r
          IN SubSeq(text, 1, p - 1)
             \o profileRankIcon(dataUri, user)
             \o SubSeq(text, GreedyUntilClose(text, p + 1) + 1, Len(text))

\* svg.replace(pattern, profileRankIcon(dataUri, username))
injectProfileIcon(text, dataUri, user) ==
  LET m == FirstMatch(text, 1)
  IN IF m[1] = 0 THEN text
     ELSE SubSeq(text, 1, m[1] - 1)
          \o profileRankIcon(dataUri, user)
          \o SubSeq(text, m[2] + 1, Len(text))

\* ------------------------------------------------- calls of the helpers
MaxNameLen == 3
MaxListLen == 2
MaxRawLen  == 4
MaxTextLen == 3
MaxTags    == 5

\* the strings of at most n characters over an alphabet
Strings(alphabet, n) == UNION {[1..k -> alphabet] : k \in 0..n}

\* the lists of at most n elements of a set
Lists(elements, n) == UNION {[1..k -> elements] : k \in 0..n}

\* arguments of shouldExcludeRepo(repoName, excludeList)
ExcludeTerms == {<<>>, <<"a">>, <<"B">>, <<"a", "B">>, <<"b", "a">>}

ShouldExcludeRepoArgs ==
  [repoName    : Strings({"a", "b", "B"}, MaxNameLen),
   excludeList : Lists(ExcludeTerms, MaxListLen)]

\* arguments of parseExcludeList(value); Absent is undefined
ParseExcludeListArgs ==
  [value : Strings({"a", "B", ",", " "}, MaxRawLen) \cup {Absent}]

\* override texts: absent, empty, 2, 3, 8 and 9 hex digits, a leading "#",
\* a letter that is no hex digit
TitleOverrides ==
  { Absent, <<>>, <<"a", "b">>, <<"a", "b", "c">>,
    <<"0", "9", "A", "f", "0", "9", "A", "f">>,
    <<"0", "9", "A", "f", "0", "9", "A", "f", "0">>,
    <<"#", "a", "b", "c">>, <<"x", "y", "z">> }

OtherOverrides == {Absent, <<"0", "9", "A", "f">>, <<"#", "a", "b", "c">>}

\* arguments of resolveColors(options)
ResolveColorsArgs ==
  [options : [theme        : {Absent, S_dark, <<"n", "o", "n", "e">>},
              title_color  : TitleOverrides,
              text_color   : OtherOverrides,
              icon_color   : OtherOverrides,
              bg_color     : OtherOverrides,
              border_color : OtherOverrides]]

\* arguments of escapeXml(s)
EscapeXmlArgs ==
  [s : Strings({"a", ";", "&", "<", ">", "\"", "'"}, MaxTextLen)]

\* arguments of injectProfileIcon(svg, dataUri, username)
InjectProfileIconArgs ==
  [svg      : Strings(SvgTags, MaxTags),
   dataUri  : {<<"data:image/png;base64,", "QUJD">>},
   username : {S_octo, S_al}]

Pending == [returned |-> FALSE]

Returned(v) == [returned |-> TRUE, value |-> v]

CallInit ==
  /\ \/ fn = "shouldExcludeRepo" /\ args \in ShouldExcludeRepoArgs
     \/ fn = "parseExcludeList" /\ args \in ParseExcludeListArgs
     \/ fn = "resolveColors" /\ args \in ResolveColorsArgs
     \/ fn = "escapeXml" /\ args \in EscapeXmlArgs
     \/ fn = "injectProfileIcon" /\ args \in InjectProfileIconArgs
  /\ ret = Pending

CallShouldExcludeRepo ==
  /\ fn = "shouldExcludeRepo"
  /\ ~ret.returned
  /\ ret' = Returned(shouldExcludeRepo(args.repoName, args.excludeList))
  /\ UNCHANGED <<fn, args>>
  /\ UNCHANGED <<aggVars, renderVars, runVars>>

CallParseExcludeList ==
  /\ fn = "parseExcludeList"
  /\ ~ret.returned
  /\ ret' = Returned(parseExcludeList(args.value))
  /\ UNCHANGED <<fn, args>>
  /\ UNCHANGED <<aggVars, renderVars, runVars>>

CallResolveColors ==
  /\ fn = "resolveColors"
  /\ ~ret.returned
  /\ ret' = Returned(resolveColors(args.options))
  /\ UNCHANGED <<fn, args>>
  /\ UNCHANGED <<aggVars, renderVars, runVars>>

CallEscapeXml ==
  /\ fn = "escapeXml"
  /\ ~ret.returned
  /\ ret' = Returned(escapeXml(args.s))
  /\ UNCHANGED <<fn, args>>
  /\ UNCHANGED <<aggVars, renderVars, runVars>>

CallInjectProfileIcon ==
  /\ fn = "injectProfileIcon"
  /\ ~ret.returned
  /\ ret' = Returned(injectProfileIcon(args.svg, args.dataUri, args.username))
  /\ UNCHANGED <<fn, args>>
  /\ UNCHANGED <<aggVars, renderVars, runVars>>

CallNext ==
  \/ CallShouldExcludeRepo
  \/ CallParseExcludeList
  \/ CallResolveColors
  \/ CallEscapeXml
  \/ CallInjectProfileIcon

\* ------------------------------------------------- run(), card "prs"
\* the value of a property an object does not have
Undefined == [undefined |-> TRUE]

\* `result.external`, `result.own`: the value fetchUserPRs returns is an
\* Array, which has neither property
PropertyOfArray(array, name) == Undefined

IsSafeChar(c) ==
  \/ \E i \in 1..26 : UpperChars[i] = c \/ LowerChars[i] = c
  \/ c \in {"0","1","2","3","4","5","6","7","8","9", ".", "_", "-"}

\* rawName.replace(/[^a-zA-Z0-9._-]/g, "-")
SafeName(rawName) ==
  [i \in 1..Len(rawName) |-> IF IsSafeChar(rawName[i]) THEN rawName[i]
                             ELSE "-"]

\* outputPathInput || path.join("profile", "prs-")
basePrefix == <<"profile/", "prs-">>

\* the path of the card of one owner
CardPath(orgData, infix) ==
  LET rawName == IF Truthy(orgData.repo) THEN orgData.repo ELSE orgData.org
  IN basePrefix \o infix \o SafeName(rawName) \o <<".svg">>

\* the two loops that render and write the cards
WrittenPaths(external, own) ==
  [i \in 1..Len(external) |-> CardPath(external[i], <<>>)]
  \o [i \in 1..Len(own) |-> CardPath(own[i], <<"own-">>)]

\* run() is suspended in `await fetchUserPRs(...)`, the token being set
\* the standard flow has not been entered
StatsIdle ==
  /\ optionsInput = <<>>
  /\ query = <<>>
  /\ useProfileIcon = FALSE
  /\ handlerOutcome = NoResponse
  /\ cardSvg = <<>>
  /\ avatarResponse = NoResponse

RunInit ==
  /\ runPc = "awaitingPRs"
  /\ written = <<>>
  /\ failure = NoError
  /\ pathOutput = Absent
  /\ card = "prs"
  /\ StatsIdle

\* fetchUserPRs resolved: run() goes on from `const allOrgs = ...` to its
\* return; spreading undefined raises a TypeError
RunConsumePRs ==
  /\ runPc = "awaitingPRs"
  /\ pc = "done"
  /\ LET external == PropertyOfArray(result, "external")
         own      == PropertyOfArray(result, "own")
     IN IF external = Undefined \/ own = Undefined
        THEN /\ runPc' = "failed"
             /\ failure' = [kind |-> "TypeError"]
             /\ UNCHANGED <<written, pathOutput>>
        ELSE /\ runPc' = "succeeded"
             /\ written' = WrittenPaths(external, own)
             /\ pathOutput' = basePrefix
             /\ UNCHANGED failure
  /\ UNCHANGED <<aggVars, renderVars, callVars, statsVars>>

\* fetchUserPRs rejected: run() rejects with the same error
RunRejected ==
  /\ runPc = "awaitingPRs"
  /\ pc = "failed"
  /\ runPc' = "failed"
  /\ failure' = thrown
  /\ UNCHANGED <<written, pathOutput>>
  /\ UNCHANGED <<aggVars, renderVars, callVars, statsVars>>

RunPrsNext ==
  \/ RunConsumePRs
  \/ RunRejected

\* ------------------------------------------------- run(), standard flow
S_profile == <<"p","r","o","f","i","l","e">>
S_github  == <<"g","i","t","h","u","b">>

\* the cards with an entry in cardHandlers
cardHandlers == {"stats"}

\* the options of the runs explored
StatsOptions ==
  [username  : {S_octo, S_al, Absent},
   rank_icon : {Absent, S_profile, S_github}]

\* what the stats handler hands to res.send: a card with the rank icon, a
\* card without it (hide_rank), the empty text
SentValues ==
  { <<OpenSvg, OpenIcon, PathTag, CloseSvg, CloseSvg>>,
    <<OpenSvg, PathTag, OpenIcon, PathTag, CloseSvg, PathTag, CloseSvg>>,
    <<OpenSvg, PathTag, CloseSvg>>,
    <<PathTag>>,
    <<>> }

\* how the handler can settle: res.send called with a value, never called,
\* or the handler rejects
HandlerOutcomes ==
  {[kind |-> "sent", value |-> v] : v \in SentValues}
  \cup {[kind |-> "silent"], [kind |-> "rejected"]}

\* how fetchAvatarDataUri can settle
AvatarOutcomes ==
  { [kind |-> "ok", contentType |-> <<"image/jpeg">>],
    [kind |-> "ok", contentType |-> Absent],
    [kind |-> "http_error", status |-> 404],
    [kind |-> "transport_error"] }

\* outputPathInput || path.join("profile", `${card}.svg`)
outputPathValue == <<"profile/", "stats", ".svg">>

\* the data URI fetchAvatarDataUri builds from an ok response
AvatarDataUri(outcome) ==
  <<"data:">>
  \o (IF Truthy(outcome.contentType) THEN outcome.contentType
      ELSE <<"image/png">>)
  \o <<";base64,", "QUJD">>

\* run() is entered with a card other than "prs"
StatsInit ==
  /\ runPc = "start"
  /\ card \in {"stats", "pin"}
  /\ optionsInput \in StatsOptions
  /\ query = optionsInput
  /\ useProfileIcon = FALSE
  /\ handlerOutcome = NoResponse
  /\ cardSvg = <<>>
  /\ avatarResponse = NoResponse
  /\ written = <<>>
  /\ failure = NoError
  /\ pathOutput = Absent

\* from validateCardOptions to `await mkdir(...)`
RunStart ==
  /\ runPc = "start"
  /\ \E repoOwner \in {Absent, S_al} :
       LET name == IF ~Truthy(query.username) /\ Truthy(repoOwner)
                   THEN repoOwner ELSE query.username
           profile == card = "stats" /\ query.rank_icon = S_profile
       IN IF card \in {"stats", "prs"} /\ ~Truthy(name)
          THEN /\ runPc' = "failed"
               /\ failure' = [kind |-> "username is required"]
               /\ query' = [query EXCEPT !.username = name]
               /\ UNCHANGED useProfileIcon
          ELSE IF card \notin cardHandlers
          THEN /\ runPc' = "failed"
               /\ failure' = [kind |-> "Unsupported card type"]
               /\ query' = [query EXCEPT !.username = name]
               /\ UNCHANGED useProfileIcon
          ELSE /\ runPc' = "awaitingMkdir"
               /\ useProfileIcon' = profile
               /\ query' = [query EXCEPT
                              !.username = name,
                              !.rank_icon = IF profile THEN S_github ELSE @]
               /\ UNCHANGED failure
  /\ UNCHANGED <<card, optionsInput, handlerOutcome, cardSvg, avatarResponse,
                 written, pathOutput>>
  /\ UNCHANGED <<aggVars, renderVars, callVars>>

\* mkdir settled; on success the handler is called
MkdirSettled ==
  /\ runPc = "awaitingMkdir"
  /\ \E ok \in BOOLEAN :
       IF ok THEN runPc' = "awaitingHandler" /\ UNCHANGED failure
       ELSE runPc' = "failed" /\ failure' = [kind |-> "mkdir"]
  /\ UNCHANGED <<written, pathOutput, statsVars>>
  /\ UNCHANGED <<aggVars, renderVars, callVars>>

\* a flow without the `if (!svg) throw` test
HandlerSettledUnchecked ==
  /\ runPc = "awaitingHandler"
  /\ \E outcome \in HandlerOutcomes :
       /\ handlerOutcome' = outcome
       /\ cardSvg' = IF outcome.kind = "sent" THEN outcome.value ELSE cardSvg
       /\ IF outcome.kind = "rejected"
          THEN runPc' = "failed" /\ failure' = [kind |-> "handler"]
          ELSE /\ runPc' = IF useProfileIcon THEN "awaitingAvatar"
                           ELSE "awaitingWrite"
               /\ UNCHANGED failure
  /\ UNCHANGED <<card, optionsInput, query, useProfileIcon, avatarResponse,
                 written, pathOutput>>
  /\ UNCHANGED <<aggVars, renderVars, callVars>>

\* the handler settled: an empty svg is an error, otherwise the avatar is
\* requested (profile icon) or writeFile is called
HandlerSettled ==
  /\ runPc = "awaitingHandler"
  /\ \E outcome \in HandlerOutcomes :
       /\ handlerOutcome' = outcome
       /\ cardSvg' = IF outcome.kind = "sent" THEN outcome.value ELSE cardSvg
       /\ IF outcome.kind = "rejected"
          THEN runPc' = "failed" /\ failure' = [kind |-> "handler"]
          ELSE IF cardSvg' = <<>>
          THEN /\ runPc' = "failed"
               /\ failure' = [kind |-> "Card renderer returned empty output."]
          ELSE /\ runPc' = IF useProfileIcon THEN "awaitingAvatar"
                           ELSE "awaitingWrite"
               /\ UNCHANGED failure
  /\ UNCHANGED <<card, optionsInput, query, useProfileIcon, avatarResponse,
                 written, pathOutput>>
  /\ UNCHANGED <<aggVars, renderVars, callVars>>

\* fetchAvatarDataUri settled: on success the icon is replaced and writeFile
\* is called
AvatarFetchSettled ==
  /\ runPc = "awaitingAvatar"
  /\ \E outcome \in AvatarOutcomes :
       /\ avatarResponse' = outcome
       /\ IF outcome.kind = "ok"
          THEN /\ cardSvg' = injectProfileIcon(cardSvg, AvatarDataUri(outcome),
                                               query.username)
               /\ runPc' = "awaitingWrite"
               /\ UNCHANGED failure
          ELSE /\ runPc' = "failed"
               /\ failure' = outcome
               /\ UNCHANGED cardSvg
  /\ UNCHANGED <<card, optionsInput, query, useProfileIcon, handlerOutcome,
                 written, pathOutput>>
  /\ UNCHANGED <<aggVars, renderVars, callVars>>

\* writeFile settled: on success the `path` output is set
WriteSettled ==
  /\ runPc = "awaitingWrite"
  /\ \E ok \in BOOLEAN :
       IF ok
       THEN /\ written' = Append(written, outputPathValue)
            /\ pathOutput' = outputPathValue
            /\ runPc' = "succeeded"
            /\ UNCHANGED failure
       ELSE /\ runPc' = "failed"
            /\ failure' = [kind |-> "writeFile"]
            /\ UNCHANGED <<written, pathOutput>>
  /\ UNCHANGED statsVars
  /\ UNCHANGED <<aggVars, renderVars, callVars>>

StatsNext ==
  \/ RunStart
  \/ MkdirSettled
  \/ HandlerSettled
  \/ AvatarFetchSettled
  \/ WriteSettled

\* --------------------------------------------------------- specifications
vars == <<aggVars, renderVars, callVars, runVars>>

\* no aggregation is running
AggIdle ==
  /\ username = <<>>
  /\ excludeList = <<>>
  /\ pc = "idle"
  /\ after = NullCursor
  /\ hasNextPage = FALSE
  /\ orgMap = <<>>
  /\ result = <<>>
  /\ thrown = NoError
  /\ requests = <<>>
  /\ response = NoResponse
  /\ consumed = <<>>

\* no card is being rendered
RenderIdle ==
  /\ data = [org |-> <<>>]
  /\ options = [theme |-> Absent]
  /\ languageColors = {}
  /\ rpc = "idle"
  /\ avatarFetch = NotFetched
  /\ langFetch = NotFetched
  /\ avatarDataUri = Absent
  /\ langIconDataUri = <<>>
  /\ svg = <<>>

\* no helper is being called
CallIdle ==
  /\ fn = "none"
  /\ args = <<>>
  /\ ret = Pending

\* run() is not executing
RunIdle ==
  /\ runPc = "idle"
  /\ written = <<>>
  /\ failure = NoError
  /\ pathOutput = Absent
  /\ card = "none"
  /\ StatsIdle

\* one call of fetchUserPRs, made by run() for the card "prs"
Init == AggInit /\ RunInit /\ RenderIdle /\ CallIdle
Next == AggNext \/ RunPrsNext
Spec == Init /\ [][Next]_vars

\* one call of renderOrgCard
InitRender == RenderInit /\ AggIdle /\ CallIdle /\ RunIdle
NextRender == RenderNext
SpecRender == InitRender /\ [][NextRender]_vars

\* one run of the entry point with a card of the standard flow
InitStats == StatsInit /\ AggIdle /\ RenderIdle /\ CallIdle
NextStats == StatsNext
SpecStats == InitStats /\ [][NextStats]_vars

\* one call of an exported helper
InitCalls == CallInit /\ AggIdle /\ RenderIdle /\ RunIdle
NextCalls == CallNext
SpecCalls == InitCalls /\ [][NextCalls]_vars

\* ------------------------------------------------ what the API delivered
\* the PR item is counted: it has a repository, is not a fork of the queried
\* user and is not excluded
Qualifies(node) ==
  /\ node.repository # NullRepository
  /\ ~(node.repository.owner.login = username /\ node.repository.isFork)
  /\ ~shouldExcludeRepo(node.repository.nameWithOwner,
                        NormalizeEntries(excludeList))

\* the qualifying items of an owner, in the order of arrival
OwnerItems(owner) ==
  SelectSeq(consumed,
            LAMBDA n : Qualifies(n) /\ n.repository.owner.login = owner)

\* the number of items consumed for a repository
Occurrences(repo) ==
  Len(SelectSeq(consumed, LAMBDA n : n.repository = repo))

\* position in `consumed` of the first qualifying item of an owner
FirstSeen(owner) ==
  LET at == {i \in 1..Len(consumed) :
               Qualifies(consumed[i])
               /\ consumed[i].repository.owner.login = owner}
  IN IF at = {} THEN 0 ELSE CHOOSE i \in at : \A j \in at : i <= j

\* the merged count the accumulators hold for a repository, 0 without entry
MergedCount(repo) ==
  LET oi == IndexOfOrg(orgMap, repo.owner.login)
      ri == IF oi = 0 THEN 0
            ELSE IndexOfRepo(orgMap[oi].repos, repo.nameWithOwner)
  IN IF ri = 0 THEN 0 ELSE orgMap[oi].repos[ri].prs

LanguageOf(repo) ==
  IF Truthy(repo.primaryLanguage) THEN repo.primaryLanguage ELSE <<>>

\* ------------------------------------------------------------------ claims
\* C1: for every owner of the returned list, `repo` is the first-seen one of
\* the owner's repositories with a qualifying PR whose star count is the
\* highest (also when all of them have 0 stars), and `stars` and `language`
\* are that repository's values.
C1_MainRepoIsHighestStarred ==
  pc = "done" =>
    \A i \in 1..Len(result) :
      LET items == OwnerItems(result[i].org)
          top   == {j \in 1..Len(items) :
                      \A k \in 1..Len(items) :
                         items[k].repository.stargazerCount
                           <= items[j].repository.stargazerCount}
          first == CHOOSE j \in top : \A k \in top : j <= k
      IN /\ items # <<>>
         /\ result[i].repo = items[first].repository.nameWithOwner
         /\ result[i].stars = items[first].repository.stargazerCount
         /\ result[i].language = LanguageOf(items[first].repository)

\* C2: for every owner of the returned list, mergedPRs is the sum of the
\* merged counts of all repositories of the owner's accumulator, which is the
\* number of qualifying PR items of that owner over all pages.
C2_MergedPRsSumsAllRepos ==
  pc = "done" =>
    \A i \in 1..Len(result) :
      LET oi == IndexOfOrg(orgMap, result[i].org)
      IN /\ oi # 0
         /\ result[i].mergedPRs
              = Len(OwnerItems(result[i].org))
         /\ \A r \in 1..Len(orgMap[oi].repos) :
              orgMap[oi].repos[r].prs
                = Len(SelectSeq(OwnerItems(result[i].org),
                        LAMBDA n : n.repository.nameWithOwner
                                     = orgMap[oi].repos[r].name))

\* an owner with PRs in two repositories, the main one not holding them all
C2_Witness ==
  /\ pc = "done"
  /\ \E i \in 1..Len(result) :
       LET oi == IndexOfOrg(orgMap, result[i].org)
       IN /\ Len(orgMap[oi].repos) = 2
          /\ result[i].mergedPRs = 3
          /\ result[i].repo = orgMap[oi].repos[2].name
          /\ orgMap[oi].repos[2].prs = 1

\* C3: the returned list is in descending order of mergedPRs, and entries
\* with equal mergedPRs are in the order in which their owners were first
\* accumulated.
C3_SortedDescendingStable ==
  pc = "done" =>
    \A i, j \in 1..Len(result) :
      i < j =>
        /\ result[i].mergedPRs >= result[j].mergedPRs
        /\ result[i].mergedPRs = result[j].mergedPRs
             => FirstSeen(result[i].org) < FirstSeen(result[j].org)

\* three owners: the one seen second has most PRs, the other two are tied
C3_Witness ==
  /\ pc = "done"
  /\ Len(result) = 3
  /\ result[1].mergedPRs > result[2].mergedPRs
  /\ result[2].mergedPRs = result[3].mergedPRs
  /\ FirstSeen(result[2].org) < FirstSeen(result[1].org)
  /\ FirstSeen(result[1].org) < FirstSeen(result[3].org)

C5_PageFailureIsFatal ==
  /\ [](response.kind \in {"http", "graphql"}
          => /\ pc = "failed"
             /\ thrown = response
             /\ result = <<>>)
  /\ [][response'.kind \in {"http", "graphql"}
          => /\ requests' = requests
             /\ pc' = "failed"]_vars
  /\ [][pc = "failed" => requests' = requests /\ pc' = "failed"]_vars

\* the second page fails after the first page was accumulated
C5_Witness ==
  /\ pc = "failed"
  /\ Len(requests) = 2
  /\ orgMap # <<>>
  /\ thrown.kind = "http"

\* ----------------------------------------------- reading a rendered card
\* the document as one text
SvgText(doc) == Concat([i \in 1..Len(doc) |-> doc[i].text])

\* the pieces of one element of the card
PartOf(doc, part) == SelectSeq(doc, LAMBDA seg : seg.part = part)

\* the interpolated values of a sequence of pieces
ValuesOf(doc) == SelectSeq(doc, LAMBDA seg : seg.kind = "val")

NamesOf(doc) == [i \in 1..Len(doc) |-> doc[i].name]

IsSvgDocument(doc) ==
  /\ Len(doc) >= 2
  /\ doc[1].kind = "lit"
  /\ SubSeq(SvgText(doc), 1, 1)
       = <<"<svg width=\"450\" height=\"100\" role=\"img\" aria-labelledby=\"title-">>
  /\ doc[Len(doc)].text = <<"</svg>">>

XmlEntities ==
  { <<"&","a","m","p",";">>, <<"&","l","t",";">>, <<"&","g","t",";">>,
    <<"&","q","u","o","t",";">>, <<"&","#","3","9",";">> }

\* no markup character in the text, and every & starts one of the entities
XmlSafe(text) ==
  \A i \in 1..Len(text) :
    /\ text[i] \notin {"<", ">", "\"", "'"}
    /\ text[i] = "&" =>
         \E e \in XmlEntities :
            /\ i + Len(e) - 1 <= Len(text)
            /\ SubSeq(text, i, i + Len(e) - 1) = e

\* both requests of the card have been answered (the icon request is made
\* only for a language with an icon URL)
FetchesSettled ==
  /\ avatarFetch # NotFetched
  /\ languageIconUrl(data.language) # Absent => langFetch # NotFetched

EmptyOptions ==
  [theme |-> Absent, title_color |-> Absent, text_color |-> Absent,
   icon_color |-> Absent, bg_color |-> Absent, border_color |-> Absent,
   border_radius |-> Absent, hide_border |-> Absent]

\* C6: renderOrgCard never raises: whatever the data, the options and the
\* outcomes of the avatar and icon requests, once the requests are answered
\* the call has resolved with an SVG document; it is never rejected.
C6_RenderNeverRaises ==
  /\ rpc # "rejected"
  /\ FetchesSettled => rpc = "resolved" /\ IsSvgDocument(svg)

\* empty options, the avatar request dies in transport and the icon request
\* gets a non-success status
C6_Witness ==
  /\ rpc = "resolved"
  /\ options = EmptyOptions
  /\ avatarFetch.kind = "transport_error"
  /\ langFetch.kind = "http_error"

\* C7: every caller-supplied text inserted into the document (display name,
\* language name, owner login in the ids, border_radius in the rx attribute)
\* has the five XML special characters escaped.
C7_InsertedTextIsEscaped ==
  rpc = "resolved" =>
    \A i \in 1..Len(svg) :
      (/\ svg[i].kind = "val"
       /\ svg[i].name \in {"titleText", "nameText", "langLabel", "org",
                           "clipId", "borderRadius"})
        => XmlSafe(svg[i].text)

\* C8: the document never contains the text "undefined", also for an empty
\* or absent language and a zero or undefined star count.
C8_NoUndefinedInOutput ==
  rpc = "resolved" => ~includes(SvgText(svg), S_undefined)

\* C9: the avatar element (clip path, background rect, image) is in the
\* document exactly when the avatar request succeeded; after a failure there
\* is no piece of it at all, and title, name, language element, stats and
\* border are what they are with an avatar.
C9_AvatarEmbeddedIffFetched ==
  rpc = "resolved" =>
    LET avatar == PartOf(svg, "avatar")
        rest   == SelectSeq(svg, LAMBDA seg : seg.part # "avatar")
        with   == SvgDocument(data, options, languageColors,
                              <<"data:", "image/png", ";base64,", "AAAA">>,
                              langIconDataUri)
    IN /\ (avatarFetch.kind = "ok") <=> (avatar # <<>>)
       /\ avatarFetch.kind = "ok" =>
            /\ NamesOf(ValuesOf(avatar))
                 = <<"clipId", "avatarSize", "avatarHref", "clipId">>
            /\ ValuesOf(avatar)[3].text
                 = fetchImageDataUri(avatarFetch).value
       /\ rest = SelectSeq(with, LAMBDA seg : seg.part # "avatar")
       /\ \A part \in {"title", "name", "stats", "border"} :
            PartOf(rest, part) # <<>>

\* the avatar request fails, the icon request succeeds
C9_Witness ==
  /\ rpc = "resolved"
  /\ avatarFetch.kind = "http_error"
  /\ langFetch.kind = "ok"
  /\ PartOf(svg, "lang") # <<>>

\* C10: the language element is the icon image and the label when the
\* language has an icon URL and the icon request succeeded; a dot in the
\* table colour of the language (#586069 without table entry) and the label
\* when it has an icon URL and the request failed; absent when the language
\* is empty or absent.
C10_LanguageElement ==
  rpc = "resolved" =>
    LET lang   == PartOf(svg, "lang")
        values == ValuesOf(lang)
        hasUrl == languageIconUrl(data.language) # Absent
    IN /\ (hasUrl /\ langFetch.kind = "ok") =>
            /\ NamesOf(values) = <<"langIconHref", "langLabel">>
            /\ values[1].text = fetchImageDataUri(langFetch).value
            /\ values[2].text = escapeXml(data.language)
       /\ (hasUrl /\ langFetch.kind \in {"http_error", "transport_error"}) =>
            /\ NamesOf(values) = <<"langDotFill", "langLabel">>
            /\ values[1].text
                 = IF \E e \in languageColors : e.lang = data.language
                   THEN (CHOOSE e \in languageColors :
                           e.lang = data.language).color
                   ELSE <<"#","5","8","6","0","6","9">>
            /\ values[2].text = escapeXml(data.language)
       /\ (data.language = <<>> \/ data.language = Absent) => lang = <<>>

\* the icon request of a language of the colour table fails
C10_Witness ==
  /\ rpc = "resolved"
  /\ langFetch.kind = "transport_error"
  /\ \E e \in languageColors : e.lang = data.language
  /\ \E i \in 1..Len(svg) : svg[i].name = "langDotFill"

\* ------------------------------------------------------ exclusion helpers
\* C11: shouldExcludeRepo returns TRUE exactly when the list is not empty and
\* the lower-cased identifier contains at least one listed term taken in
\* lower case; for the empty list it returns FALSE
C11_ExcludeMatchesAnyCase ==
  (fn = "shouldExcludeRepo" /\ ret.returned) =>
    ret.value = (\E i \in 1..Len(args.excludeList) :
                   includes(toLowerCase(args.repoName),
                            toLowerCase(args.excludeList[i])))

\* the same statement for the lists whose terms are already in lower case
C11_LowerCaseTermsOnly ==
  ( /\ fn = "shouldExcludeRepo"
    /\ ret.returned
    /\ \A i \in 1..Len(args.excludeList) :
         args.excludeList[i] = toLowerCase(args.excludeList[i]) ) =>
    ret.value = (\E i \in 1..Len(args.excludeList) :
                   includes(toLowerCase(args.repoName), args.excludeList[i]))

\* the terms of a raw value, read character by character
FlushTerm(acc, cur) ==
  IF TrimEnd(cur) = <<>> THEN acc ELSE Append(acc, TrimEnd(cur))

RECURSIVE ScanTerms(_, _, _)
ScanTerms(s, cur, acc) ==
  IF s = <<>> THEN FlushTerm(acc, cur)
  ELSE IF Head(s) = "," THEN ScanTerms(Tail(s), <<>>, FlushTerm(acc, cur))
  ELSE IF Head(s) = " " /\ cur = <<>> THEN ScanTerms(Tail(s), cur, acc)
  ELSE ScanTerms(Tail(s), cur \o <<LowerChar(Head(s))>>, acc)

\* C18: parseExcludeList yields the comma-separated pieces of its input,
\* trimmed and lower-cased, without the empty ones, in their original
\* order; undefined and the empty string yield the empty list
C18_ParseExcludeList ==
  (fn = "parseExcludeList" /\ ret.returned) =>
    /\ ~Truthy(args.value) => ret.value = <<>>
    /\ Truthy(args.value) => ret.value = ScanTerms(args.value, <<>>, <<>>)
    /\ \A i \in 1..Len(ret.value) :
         /\ ret.value[i] # <<>>
         /\ \A j \in 1..Len(ret.value[i]) :
              ret.value[i][j] \notin {",", "B"}
         /\ ret.value[i][1] # " "
         /\ ret.value[i][Len(ret.value[i])] # " "

C18_Witness ==
  /\ fn = "parseExcludeList"
  /\ ret.returned
  /\ args.value = <<"B", ",", ",", "a">>
  /\ ret.value = << <<"b">>, <<"a">> >>

\* ------------------------------------------------------------ colour set
\* option name and result name of the five colour fields
ColorFields ==
  { <<"title_color", "titleColor">>, <<"text_color", "textColor">>,
    <<"icon_color", "iconColor">>, <<"bg_color", "bgColor">>,
    <<"border_color", "borderColor">> }

\* the colour a theme name stands for: the theme's own value, the default
\* theme's value where the theme has none or the name is not a theme
ThemeColor(themeName, key) ==
  LET own == IF themeName \in ThemeNames THEN themes(themeName)[key]
             ELSE Absent
  IN <<"#">> \o (IF own # Absent THEN own ELSE themes(S_default)[key])

HexDigitsOnly(v, lo, hi) ==
  /\ Len(v) \in lo..hi
  /\ \A i \in 1..Len(v) :
       v[i] \in {"0","1","2","3","4","5","6","7","8","9"}
         \/ LowerChar(v[i]) \in {"a","b","c","d","e","f"}

\* 3 to 8 hex digits, optionally preceded by "#"
HexOptionalHash(v) ==
  /\ v # Absent
  /\ HexDigitsOnly(IF v # <<>> /\ Head(v) = "#" THEN Tail(v) ELSE v, 3, 8)

\* 3 to 8 hex digits and nothing else
HexBare(v) == v # Absent /\ HexDigitsOnly(v, 3, 8)

\* C12: each colour field is "#" followed by its override when the override
\* is 3 to 8 hex digits optionally preceded by "#", and the theme's colour
\* otherwise
C12_OverrideWithOptionalHash ==
  (fn = "resolveColors" /\ ret.returned) =>
    \A f \in ColorFields :
      ret.value[f[2]] =
        IF HexOptionalHash(args.options[f[1]])
        THEN <<"#">> \o args.options[f[1]]
        ELSE ThemeColor(args.options.theme, f[1])

\* C12 (amended): each colour field is "#" followed by its override when the
\* override is 3 to 8 hex digits with nothing before them, and otherwise the
\* selected theme's colour (the default theme's where the theme has none);
\* a field depends on no other field's override
C12_OverrideOrTheme ==
  (fn = "resolveColors" /\ ret.returned) =>
    \A f \in ColorFields :
      ret.value[f[2]] =
        IF HexBare(args.options[f[1]])
        THEN <<"#">> \o args.options[f[1]]
        ELSE ThemeColor(args.options.theme, f[1])

C12_Witness ==
  /\ fn = "resolveColors"
  /\ ret.returned
  /\ args.options.theme = S_dark
  /\ args.options.title_color = <<"a", "b", "c">>
  /\ ret.value.titleColor = <<"#", "a", "b", "c">>
  /\ args.options.text_color = <<"#", "a", "b", "c">>
  /\ ret.value.textColor = <<"#", "9", "f", "9", "f", "9", "f">>
  /\ args.options.border_color = Absent
  /\ ret.value.borderColor = <<"#", "e", "4", "e", "2", "e", "2">>

\* "#" followed by 3 to 8 hex digits
IsColorToken(c) ==
  /\ c # <<>>
  /\ Head(c) = "#"
  /\ HexDigitsOnly(Tail(c), 3, 8)

\* C13: every call of resolveColors returns; the result has exactly the five
\* colour fields, each a colour token; an override that is no hex colour
\* leaves the theme's colour; an absent or unknown theme name gives the
\* default theme's colours
C13_ResolveColorsTotal ==
  (fn = "resolveColors") =>
    /\ ~ret.returned => ENABLED CallResolveColors
    /\ ret.returned =>
         /\ DOMAIN ret.value = {f[2] : f \in ColorFields}
         /\ \A f \in ColorFields :
              /\ IsColorToken(ret.value[f[2]])
              /\ ~HexBare(args.options[f[1]]) =>
                   ret.value[f[2]] = ThemeColor(args.options.theme, f[1])
              /\ ( /\ args.options.theme \notin ThemeNames
                   /\ ~HexBare(args.options[f[1]]) ) =>
                   ret.value[f[2]] = <<"#">> \o themes(S_default)[f[1]]

C13_Witness ==
  /\ fn = "resolveColors"
  /\ ret.returned
  /\ args.options.theme = <<"n", "o", "n", "e">>
  /\ args.options.title_color = <<"x", "y", "z">>
  /\ ret.value.titleColor = <<"#", "2", "f", "8", "0", "e", "d">>
  /\ args.options.bg_color = <<"#", "a", "b", "c">>
  /\ ret.value.bgColor = <<"#", "f", "f", "f", "e", "f", "e">>

\* ------------------------------------------------------- stars and border
\* the text interpolated under a name
TextOf(doc, name) ==
  LET hits == SelectSeq(doc, LAMBDA seg : seg.kind = "val" /\ seg.name = name)
  IN IF Len(hits) = 1 THEN hits[1].text ELSE Absent

DigitChars == <<"0","1","2","3","4","5","6","7","8","9">>

IsDigitChar(c) == \E d \in 1..10 : DigitChars[d] = c

DigitValue(c) == (CHOOSE d \in 1..10 : DigitChars[d] = c) - 1

RECURSIVE ParseNat(_)
ParseNat(t) ==
  IF t = <<>> THEN 0
  ELSE 10 * ParseNat(SubSeq(t, 1, Len(t) - 1)) + DigitValue(t[Len(t)])

\* a decimal numeral without sign and without leading zero
IsNumeral(t) ==
  /\ t # <<>>
  /\ \A i \in 1..Len(t) : IsDigitChar(t[i])
  /\ Len(t) > 1 => t[1] # "0"

\* C14: a star count of at least 1000 is shown as the count in thousands
\* with exactly one decimal (the nearest tenth) followed by "k"; a count
\* below 1000 is shown as the plain integer
C14_StarCountFormat ==
  (rpc = "resolved" /\ data.stars # UndefinedNumber) =>
    LET t == TextOf(svg, "stars")
    IN IF data.stars >= 1000
       THEN /\ Len(t) >= 4
            /\ t[Len(t)] = "k"
            /\ IsDigitChar(t[Len(t) - 1])
            /\ t[Len(t) - 2] = "."
            /\ IsNumeral(SubSeq(t, 1, Len(t) - 3))
            /\ LET tenths == 10 * ParseNat(SubSeq(t, 1, Len(t) - 3))
                               + DigitValue(t[Len(t) - 1])
               IN /\ 100 * tenths - data.stars <= 50
                  /\ data.stars - 100 * tenths <= 50
       ELSE IsNumeral(t) /\ ParseNat(t) = data.stars

C14_Witness ==
  /\ rpc = "resolved"
  /\ data.stars = 65000
  /\ TextOf(svg, "stars") = <<"6","5",".","0","k">>

\* C15: the border rectangle has stroke-opacity 0 exactly when the option
\* hide_border is the string "true", and 1 otherwise
C15_HideBorder ==
  (rpc = "resolved") =>
    /\ TextOf(svg, "strokeOpacity") \in {<<"0">>, <<"1">>}
    /\ TextOf(svg, "strokeOpacity") = <<"0">>
         <=> options.hide_border = <<"t","r","u","e">>
    /\ \E i \in 2..Len(svg) :
         /\ svg[i].name = "strokeOpacity"
         /\ svg[i].part = "border"
         /\ svg[i - 1].text = <<"\" stroke-opacity=\"">>

C15_Witness ==
  /\ rpc = "resolved"
  /\ options.hide_border = <<"f","a","l","s","e">>
  /\ TextOf(svg, "strokeOpacity") = <<"1">>

\* ------------------------------------------------------------ display name
\* the owner object the API delivered with the owner's first counted item
OwnerOf(login) == consumed[FirstSeen(login)].repository.owner

\* the text after the last "/" of a full name
FinalSegment(fullName) ==
  CHOOSE t \in {SubSeq(fullName, i, Len(fullName)) :
                  i \in 1..(Len(fullName) + 1)} :
    /\ \A j \in 1..Len(t) : t[j] # "/"
    /\ Len(t) = Len(fullName) \/ fullName[Len(fullName) - Len(t)] = "/"

EscapeChar(c) ==
  CASE c = "&"  -> <<"&","a","m","p",";">>
    [] c = "<"  -> <<"&","l","t",";">>
    [] c = ">"  -> <<"&","g","t",";">>
    [] c = "\"" -> <<"&","q","u","o","t",";">>
    [] c = "'"  -> <<"&","#","3","9",";">>
    [] OTHER    -> <<c>>

\* C17: escapeXml replaces every occurrence of & < > " ' by &amp; &lt; &gt;
\* &quot; &#39; and leaves every other character as it is, in place
C17_EscapeXml ==
  (fn = "escapeXml" /\ ret.returned) =>
    /\ ret.value = Concat([i \in 1..Len(args.s) |-> EscapeChar(args.s[i])])
    /\ \A i \in 1..Len(ret.value) :
         ret.value[i] \notin {"<", ">", "\"", "'"}

C17_Witness ==
  /\ fn = "escapeXml"
  /\ ret.returned
  /\ args.s = <<"<", "a", "&">>
  /\ ret.value = <<"&","l","t",";", "a", "&","a","m","p",";">>

\* ---------------------------------------------------------- cards written
\* the card path the README gives for an entry of the result
ExpectedPath(e) ==
  <<"profile/", "prs-">>
  \o (IF e.org = username THEN <<"own-">> ELSE <<>>)
  \o [i \in 1..Len(IF e.repo # <<>> THEN e.repo ELSE e.org) |->
        LET c == (IF e.repo # <<>> THEN e.repo ELSE e.org)[i]
        IN IF c = "/" THEN "-" ELSE c]
  \o <<".svg">>

\* C19: once fetchUserPRs has resolved, run() consumes the result without
\* error and writes one card per returned owner, named <prefix><name>.svg
\* for another owner and <prefix>own-<name>.svg for the user's own
\* repositories
C19_OneCardPerOwner ==
  (pc = "done" /\ runPc # "awaitingPRs") =>
    /\ runPc = "succeeded"
    /\ failure = NoError
    /\ Len(written) = Len(result)
    /\ \A i \in 1..Len(result) :
         \E j \in 1..Len(written) : written[j] = ExpectedPath(result[i])

\* ------------------------------------------------------------ profile icon
\* the positions of the opening tags that carry the test id
IconTags(text) == {i \in 1..Len(text) : text[i] = OpenIcon}

FirstIconTag(text) ==
  CHOOSE i \in IconTags(text) : \A j \in IconTags(text) : i <= j

\* nesting depth of svg elements after the tags i..j
Depth(text, i, j) ==
  Cardinality({k \in i..j : text[k] \in {OpenSvg, OpenIcon}})
  - Cardinality({k \in i..j : text[k] = CloseSvg})

\* the closing tags that end the element opened at i (at most one)
ElementEnd(text, i) ==
  {j \in (i + 1)..Len(text) :
     /\ text[j] = CloseSvg
     /\ Depth(text, i, j) = 0
     /\ \A k \in i..(j - 1) : Depth(text, i, k) > 0}

\* the closing tags after position i
ClosesAfter(text, i) == {j \in (i + 1)..Len(text) : text[j] = CloseSvg}

\* the element that shows the avatar
ProfileIcon ==
  << "<svg x=\"-38\" y=\"-30\" width=\"66\" height=\"66\" data-testid=\"profile-rank-icon\">",
     "<defs><clipPath id=\"profile-clip-" >>
  \o args.username
  \o << "\"><circle cx=\"33\" cy=\"33\" r=\"33\"/></clipPath></defs>",
        "<image width=\"66\" height=\"66\" href=\"" >>
  \o args.dataUri
  \o << "\" clip-path=\"url(#profile-clip-" >>
  \o args.username
  \o << ")\"/>", "</svg>" >>

AnsweredUpTo(n) ==
  IF n = 0 THEN response = NoResponse
  ELSE /\ response.kind = "ok"
       /\ response.hasNextPage
       /\ response.endCursor = Cursor(n)

\* C21: a page request is issued only when every earlier request has been
\* answered; the first request carries the null cursor, every later one the
\* endCursor of the response just before it; and after a response with
\* hasNextPage false no request is issued
C21_SequentialPageLoop ==
  /\ [](requests # <<>> => requests[1] = NullCursor)
  /\ [][requests' # requests =>
          /\ requests' = Append(requests, requests'[Len(requests')])
          /\ AnsweredUpTo(Len(requests))
          /\ response' = response
          /\ requests # <<>> => requests'[Len(requests')] = response.endCursor]_vars
  /\ [][(response.kind = "ok" /\ ~response.hasNextPage) =>
          requests' = requests]_vars
  /\ [][response' # response => pc = "awaiting" /\ requests' = requests]_vars

\* two pages were requested, the second with the cursor of the first
C21_Witness ==
  /\ pc = "done"
  /\ requests = <<NullCursor, Cursor(1)>>
  /\ response.kind = "ok"
  /\ ~response.hasNextPage

\* -------------------------------------------------------------- termination
\* one request for each page: the null cursor, then the cursor of each page
\* but the last
OneRequestPerPage ==
  requests = [i \in 1..Len(requests) |->
                IF i = 1 THEN NullCursor ELSE Cursor(i - 1)]

\* what is left of the loop: two steps for each page not yet requested, one
\* step while a request is awaited (MaxPages is the page that reports
\* hasNextPage false at the latest)
StepsLeft ==
  2 * (MaxPages - Len(requests)) + (IF pc = "awaiting" THEN 1 ELSE 0)

\* C22: when no page request fails, fetchUserPRs comes to its return: the
\* loop is never stuck, every step of it brings the end nearer, the step that
\* consumes the page with hasNextPage false returns the list, and by then
\* exactly one request was issued for each page up to that one
C22_Terminates ==
  /\ [](pc = "fetching" => hasNextPage /\ ENABLED IssueRequest)
  /\ [](StepsLeft >= 0)
  /\ [][aggVars' # aggVars => StepsLeft' < StepsLeft]_vars
  /\ [][(response'.kind = "ok" /\ response' # response) =>
          IF response'.hasNextPage THEN pc' = "fetching" ELSE pc' = "done"]_vars
  /\ [](pc = "done" =>
          /\ thrown = NoError
          /\ response.kind = "ok"
          /\ ~response.hasNextPage
          /\ requests # <<>>
          /\ OneRequestPerPage
          /\ result = Finalize(orgMap))
  /\ [](pc = "failed" => thrown # NoError /\ response.kind # "ok")

C22_Witness ==
  /\ pc = "done"
  /\ Len(requests) = MaxPages
  /\ OneRequestPerPage
  /\ result # <<>>

\* ------------------------------------------------------- running counters
\* the accumulators after 0, 1, ... k items consumed (k + 1 maps)
RECURSIVE MapsUpTo(_, _)
MapsUpTo(k, normalizedExclude) ==
  IF k = 0 THEN << <<>> >>
  ELSE LET earlier == MapsUpTo(k - 1, normalizedExclude)
       IN Append(earlier,
                 ProcessNode(earlier[k], consumed[k], username,
                             normalizedExclude))

\* the merged count a map holds for a repository name, 0 without entry
CountIn(map, owner, name) ==
  LET os == {i \in 1..Len(map) : map[i].org = owner}
  IN IF os = {} THEN 0
     ELSE LET o  == CHOOSE i \in os : TRUE
              rs == {j \in 1..Len(map[o].repos) : map[o].repos[j].name = name}
          IN IF rs = {} THEN 0
             ELSE map[o].repos[CHOOSE j \in rs : TRUE].prs

\* C23: after every item consumed, the merged count of each repository is the
\* number of qualifying items seen so far for it, duplicates included; an
\* item without repository, to a self-fork or to an excluded repository
\* leaves all accumulators as they were
C23_CountsFollowItems ==
  /\ []((runPc = "awaitingPRs" /\ pc \in {"fetching", "done"}) =>
          LET n          == Len(consumed)
              maps       == MapsUpTo(n, NormalizeEntries(excludeList))
              qualifying == [i \in 1..n |-> Qualifies(consumed[i])]
          IN /\ orgMap = maps[n + 1]
             /\ \A k \in 1..n :
                  /\ \A r \in Repositories :
                       CountIn(maps[k + 1], r.owner.login, r.nameWithOwner)
                         = Cardinality({i \in 1..k :
                                          /\ qualifying[i]
                                          /\ consumed[i].repository = r})
                  /\ ~qualifying[k] => maps[k + 1] = maps[k])
  /\ [][(runPc' # "awaitingPRs" \/ pc' \notin {"fetching", "done"}) =>
          (orgMap' = orgMap /\ consumed' = consumed)]_vars

\* a repository counted twice, on two pages, with skipped items in between
C23_Witness ==
  /\ Len(requests) = 2
  /\ pc \in {"fetching", "done"}
  /\ \E r \in Repositories :
       /\ CountIn(orgMap, r.owner.login, r.nameWithOwner) = 2
       /\ \E i, j, k \in 1..Len(consumed) :
            /\ i < k /\ k < j
            /\ consumed[i].repository = r
            /\ consumed[j].repository = r
            /\ ~Qualifies(consumed[k])

\* ------------------------------------------------------- one entry per owner
\* the logins of the owners with at least one qualifying item
QualifyingOwners ==
  {consumed[i].repository.owner.login :
     i \in {j \in 1..Len(consumed) : Qualifies(consumed[j])}}

\* C25: the returned list has exactly one entry for each owner login with at
\* least one qualifying PR item: the logins are pairwise distinct, every
\* entry has mergedPRs >= 1, and an owner whose items were all skipped has no
\* entry
C25_OneEntryPerOwner ==
  (pc = "done") =>
    /\ \A i, j \in 1..Len(result) : result[i].org = result[j].org => i = j
    /\ \A i \in 1..Len(result) : result[i].mergedPRs >= 1
    /\ {result[i].org : i \in 1..Len(result)} = QualifyingOwners

\* two owners returned, a third owner's only item was a self-fork
C25_Witness ==
  /\ pc = "done"
  /\ Len(result) = 2
  /\ \E i \in 1..Len(consumed) :
       /\ consumed[i].repository # NullRepository
       /\ consumed[i].repository.owner.login \notin QualifyingOwners

\* ------------------------------------------------------------ card written
\* the handler settled without a non-empty svg
DeliveredNothing ==
  \/ handlerOutcome.kind = "silent"
  \/ handlerOutcome.kind = "sent" /\ Len(handlerOutcome.value) = 0

DeliveredSvg ==
  handlerOutcome.kind = "sent" /\ Len(handlerOutcome.value) > 0

ProfileRequested == card = "stats" /\ optionsInput.rank_icon = S_profile

AvatarFailed == avatarResponse.kind \in {"http_error", "transport_error"}

\* C24: in the standard flow writeFile is called, and the file written, only
\* after the handler delivered a non-empty svg and, with rank_icon=profile,
\* after the avatar was fetched; when the handler delivers nothing or the
\* avatar fetch fails the run has failed, nothing is written and the `path`
\* output is not set, and stays so
C24_WriteAfterSvgAndAvatar ==
  /\ []((runPc \in {"awaitingWrite", "succeeded"} \/ written # <<>>) =>
          /\ DeliveredSvg
          /\ ProfileRequested => avatarResponse.kind = "ok")
  /\ []((DeliveredNothing \/ AvatarFailed) =>
          /\ runPc = "failed"
          /\ failure # NoError
          /\ written = <<>>
          /\ pathOutput = Absent)
  /\ [](pathOutput # Absent => written = <<outputPathValue>>)
  /\ [][runPc = "failed" =>
          (runPc' = "failed" /\ written' = written
           /\ pathOutput' = pathOutput)]_vars
  /\ [][written' # written =>
          (runPc = "awaitingWrite" /\ runPc' = "succeeded")]_vars
  /\ [][avatarResponse' # avatarResponse =>
          (ProfileRequested /\ DeliveredSvg)]_vars

\* the card was written after the avatar replaced the rank icon
C24_Witness ==
  /\ runPc = "succeeded"
  /\ ProfileRequested
  /\ avatarResponse.kind = "ok"
  /\ handlerOutcome.value = <<OpenSvg, OpenIcon, PathTag, CloseSvg, CloseSvg>>
  /\ cardSvg = <<OpenSvg>>
               \o profileRankIcon(AvatarDataUri(avatarResponse), S_octo)
               \o <<CloseSvg>>
  /\ written = <<outputPathValue>>
  /\ pathOutput = outputPathValue

====
